---- MODULE Spec2Model ----
(***************************************************************************)
(* The access-token lifecycle of the OSDU demo application.                *)
(*                                                                         *)
(* Two implementations live in the repository:                             *)
(*   - osdu_app/auth.py + osdu_app/token_store.py + osdu_app/auth_ui.py,   *)
(*     used by every page (specifications Spec, SpecStore, SpecLive);      *)
(*   - auth/token_manager.py, a stand-alone helper (specification SpecTM). *)
(*                                                                         *)
(* Time.  Every timestamp is kept relative to the current instant, as the  *)
(* number of ticks that remain until it is reached (0: it is not in the    *)
(* future).  A second has Sub ticks, so that datetimes have a sub-second   *)
(* part and _format_expiry's replace(microsecond=0) is a real truncation.  *)
(* phase is the sub-second part of the current instant.  Durations are     *)
(* scaled down: the token lifetime, the cache ttl and the early-refresh    *)
(* margin are a few seconds instead of 3600, 3300 and 120.                 *)
(***************************************************************************)
EXTENDS Integers, FiniteSets, Sequences, TLC

\* ---------------------------------------------------------------- bounds
\* ticks per second
Sub == 2
\* TOKEN_REFRESH_EARLY_SECONDS (secrets; the code's default is 120), scaled
EarlySeconds == 1
\* ttl of st.cache_data on _fetch_access_token_cached (3300 in the code), scaled
CacheTtl == 3
\* the largest expires_in the token endpoint answers with
MaxExpiresIn == 2
\* expires_in assumed when the response has none (3600 in the code), scaled
DefaultExpiresIn == 4
\* a page body starts no further token operation once its run has sent
\* this many token requests
MaxSent == 2

Sessions == {"s1"}
Tokens == {"t1", "t2"}
Locations == {"sidebar", "main"}

\* Python's None for a token, and the empty string
NoTok == "None"
Empty == ""
\* Python's None for a datetime; an expiry string that does not parse
NoExp == -1
BadExp == -2
\* a token response without the expires_in field
Absent == -1

ExpiresIns == 1..MaxExpiresIn
MaxRem == (IF DefaultExpiresIn > MaxExpiresIn THEN DefaultExpiresIn ELSE MaxExpiresIn) * Sub

\* bool(x) of a str-or-None
Truthy(t) == t # NoTok /\ t # Empty

\* answers of the token endpoint: a failure (HTTP error, or no access_token),
\* or a token with an optional expires_in
FailResp == [ok |-> FALSE, token |-> Empty, expires_in |-> Absent]
Responses ==
  {FailResp} \cup [ok : {TRUE}, token : Tokens, expires_in : ExpiresIns \cup {Absent}]

\* ---------------------------------------------------------------- state
VARIABLES
  phase,        \* sub-second part of the current instant, 0..Sub-1
  envFile,      \* the .env file: OSDU_JWT and OSDU_JWT_EXPIRES_AT
  osEnviron,    \* os.environ of the server process, for the same two keys
  fsWritable,   \* whether .env can be written (read-only on Streamlit Cloud)
  cache,        \* the st.cache_data entry of _fetch_access_token_cached
  ss,           \* st.session_state of each session (osdu_app keys)
  tm,           \* st.session_state of each session (auth/token_manager keys)
  run,          \* the script run of each session
  ev            \* outcome of the latest token operation (observation only)

vars == <<phase, envFile, osEnviron, fsWritable, cache, ss, tm, run, ev>>

\* the flows of the pages beyond the token: each is at rest in the
\* specifications of the token life cycle
VARIABLES
  ing,          \* the ingestion flow of one script run, and its requests
  call          \* a call of a function of the services: input, requests, result

flowVars == <<ing, call>>
allVars == <<vars, flowVars>>

NoRecord == [sent |-> FALSE, owners |-> <<>>, viewers |-> <<>>, legaltags |-> <<>>]
IdleIng ==
  [pc |-> "idle", flow |-> "none", owners |-> <<>>, viewers |-> <<>>,
   legal_tags |-> <<>>, template |-> "ok", log |-> <<>>, record |-> NoRecord,
   polls |-> 0, slept |-> 0, seen |-> FALSE, last |-> "none",
   out |-> "none", uploaded |-> TRUE, validate_headers |-> TRUE,
   csv_ok |-> TRUE, last_file_record_id |-> "none",
   signed_url |-> <<"none">>]
NoCall == [fn |-> "none"]
FlowsAtRest ==
  /\ ing = IdleIng
  /\ call = NoCall

NoFile == [present |-> FALSE, jwt |-> Empty, exp |-> BadExp]
NoCache == [has |-> FALSE, token |-> Empty, expires_in |-> Absent, left |-> 0]

\* auto_count is an observation, not a key of the session state: how often
\* the auto-refresh branches called refresh_access_token since osdu_token last
\* changed its value
FreshSession ==
  [osdu_token |-> NoTok, osdu_expires_at |-> NoExp, osdu_loaded_env |-> FALSE,
   guard_sidebar |-> FALSE, guard_main |-> FALSE, auto_refreshed_for_token |-> NoTok,
   auto_count |-> 0]

FreshTM == [osdu_jwt |-> NoTok, osdu_jwt_expires_at |-> NoExp, env_loaded |-> FALSE]

\* a script run: where it is, whether the page has the shared menu, the
\* refresh button whose click started it, the token requests it sent, and per
\* location whether render_auth_status was called, whether its body ran and
\* whether its refresh button is on the page
IdleRun == [pc |-> "idle", menu |-> FALSE, clicked |-> "none", sent |-> 0,
            called |-> {}, body |-> {}, shown |-> {}]

\* nothing observed
NoEv ==
  [op |-> "none", s |-> "s1", loc |-> "none", ok |-> TRUE, ret |-> NoTok, sent |-> 0,
   stored |-> FALSE, wrote |-> FALSE, out |-> "none", auto |-> FALSE, manual |-> FALSE,
   auto_refresh |-> FALSE, fetched |-> NoTok]

\* ------------------------------------------------- osdu_app/token_store.py
\* _format_expiry: the datetime as an ISO string, microseconds dropped.  The
\* instant written is the whole second at or before the given one.
FormatExpiry(rem) ==
  LET whole == rem - ((phase + rem) % Sub) IN IF whole < 0 THEN 0 ELSE whole

\* _parse_expiry: None for an empty or unparseable string
ParseExpiry(str) == IF str = BadExp THEN NoExp ELSE str

\* load_dotenv(ENV_FILE) with python-dotenv's default override=False: a key of
\* the file is copied into os.environ only when os.environ does not have it.
LoadDotenv(w) ==
  IF w.file.present /\ ~w.environ.set
  THEN [w EXCEPT !.environ = [set |-> TRUE, jwt |-> w.file.jwt, exp |-> w.file.exp]]
  ELSE w

\* os.getenv("OSDU_JWT", "") or None
GetenvJwt(w) == IF w.environ.set /\ w.environ.jwt # Empty THEN w.environ.jwt ELSE NoTok

\* _parse_expiry(os.getenv("OSDU_JWT_EXPIRES_AT", ""))
GetenvExp(w) == IF w.environ.set THEN ParseExpiry(w.environ.exp) ELSE NoExp

\* load_token_from_env: (token, exp) when both are there and exp > now
load_token_from_env(w) ==
  LET w1 == LoadDotenv(w)
      token == GetenvJwt(w1)
      exp == GetenvExp(w1)
      good == Truthy(token) /\ exp # NoExp /\ exp > 0
  IN [w |-> w1, token |-> IF good THEN token ELSE NoTok, exp |-> IF good THEN exp ELSE NoExp]

\* save_token_to_env: both keys are written with set_key; raises when the file
\* cannot be written
save_token_to_env(w, token, expires_at) ==
  IF fsWritable
  THEN [w |-> [w EXCEPT !.file = [present |-> TRUE, jwt |-> token,
                                  exp |-> FormatExpiry(expires_at)]],
        ok |-> TRUE]
  ELSE [w |-> w, ok |-> FALSE]

\* ------------------------------------------------------- osdu_app/auth.py
\* _load_env_once: the first call of a session adopts the token of the
\* environment, later calls do nothing
LoadEnvOnce(w) ==
  IF w.ss.osdu_loaded_env THEN w
  ELSE LET l == load_token_from_env(w)
           s1 == [w.ss EXCEPT !.osdu_loaded_env = TRUE]
       IN IF Truthy(l.token) /\ l.exp # NoExp
          THEN [l.w EXCEPT !.ss = [s1 EXCEPT !.osdu_token = l.token,
                                             !.osdu_expires_at = l.exp]]
          ELSE [l.w EXCEPT !.ss = s1]

\* _fetch_access_token_cached under @st.cache_data(ttl=3300): the stored
\* response while the entry lives, else one POST to the token endpoint whose
\* answer is stored; a failed request raises and stores nothing
FetchAccessTokenCached(w, resp) ==
  IF w.cache.has
  THEN [w |-> w, ok |-> TRUE, token |-> w.cache.token, expires_in |-> w.cache.expires_in]
  ELSE IF resp.ok
       THEN [w |-> [w EXCEPT !.sent = @ + 1,
                             !.cache = [has |-> TRUE, token |-> resp.token,
                                        expires_in |-> resp.expires_in,
                                        left |-> CacheTtl * Sub]],
             ok |-> TRUE, token |-> resp.token, expires_in |-> resp.expires_in]
       ELSE [w |-> [w EXCEPT !.sent = @ + 1], ok |-> FALSE, token |-> NoTok,
             expires_in |-> Absent]

\* int(token_payload.get("expires_in", 3600))
ExpiresInOf(x) == IF x = Absent THEN DefaultExpiresIn ELSE x

\* (mutant) the expiry is computed and stored anew on every call
ShouldUpdateAlways(prev_token, prev_exp, token) == TRUE

\* should_update of get_access_token
ShouldUpdate(prev_token, prev_exp, token) ==
  (prev_token # token) \/ (prev_exp = NoExp) \/ (prev_exp <= 0)

\* (mutant) the exception of save_token_to_env is not caught
SaveErrorRaised(saved) == saved

\* try: save_token_to_env(...) except Exception: pass -- whether the call
\* goes on after the save, given whether the save succeeded
SaveErrorPassed(saved) == TRUE

\* get_access_token: ok = FALSE when it raises; stored / wrote tell whether
\* the session state and the file were updated
get_access_token(w, resp) ==
  LET w1 == LoadEnvOnce(w)
      f == FetchAccessTokenCached(w1, resp)
      expires_at == ExpiresInOf(f.expires_in) * Sub
      upd == ShouldUpdate(f.w.ss.osdu_token, f.w.ss.osdu_expires_at, f.token)
      w2 == [f.w EXCEPT !.ss = [@ EXCEPT !.osdu_token = f.token,
                                         !.osdu_expires_at = expires_at]]
      sv == save_token_to_env(w2, f.token, expires_at)
  IN IF ~f.ok THEN [w |-> f.w, ok |-> FALSE, token |-> NoTok, stored |-> FALSE, wrote |-> FALSE]
     ELSE IF upd /\ ~SaveErrorPassed(sv.ok)
          THEN [w |-> sv.w, ok |-> FALSE, token |-> NoTok, stored |-> TRUE, wrote |-> FALSE]
     ELSE IF upd THEN [w |-> sv.w, ok |-> TRUE, token |-> f.token, stored |-> TRUE, wrote |-> sv.ok]
     ELSE [w |-> f.w, ok |-> TRUE, token |-> f.token, stored |-> FALSE, wrote |-> FALSE]

\* (mutant) the cache is not cleared
RefreshWithoutClear(w, resp) == get_access_token(w, resp)

\* refresh_access_token: clear the cache, then get_access_token
refresh_access_token(w, resp) ==
  get_access_token([w EXCEPT !.cache = NoCache], resp)

\* seconds_remaining: whole seconds until osdu_expires_at, 0 without one
seconds_remaining(exp) == IF exp = NoExp \/ exp <= 0 THEN 0 ELSE exp \div Sub

\* ---------------------------------------------------- osdu_app/auth_ui.py
\* the observation auto_count follows the token: back to 0 when it changes
Track(prev_token, w) ==
  IF w.ss.osdu_token # prev_token THEN [w EXCEPT !.ss.auto_count = 0] ELSE w

\* (mutant) the guard is never found set
GuardNever(sess, loc) == FALSE

\* st.session_state.get("_auth_ui_rendered_<location>", False)
GuardSet(sess, loc) == IF loc = "sidebar" THEN sess.guard_sidebar ELSE sess.guard_main

SetGuard(sess, loc) ==
  IF loc = "sidebar" THEN [sess EXCEPT !.guard_sidebar = TRUE]
  ELSE [sess EXCEPT !.guard_main = TRUE]

\* (mutant) the branches do not look at _auto_refreshed_for_token
AutoRefreshDueUnmarked(current_token, rem, refreshed_for_token) ==
  /\ Truthy(current_token)
  /\ \/ (rem > 0 /\ rem <= EarlySeconds)
     \/ rem = 0

\* (mutant) no auto-refresh branch
AutoRefreshNever(current_token, rem, refreshed_for_token) == FALSE

\* the condition of the two auto-refresh branches (near expiry: 0 < rem <=
\* margin; expired: rem = 0), each with refreshed_for_token != current_token
AutoRefreshDue(current_token, rem, refreshed_for_token) ==
  /\ Truthy(current_token)
  /\ refreshed_for_token # current_token
  /\ \/ (rem > 0 /\ rem <= EarlySeconds)
     \/ rem = 0

\* try: refresh_access_token(cfg); st.rerun()  except Exception: error(...).
\* st.rerun() leaves the script (its exception is no Exception), a failed
\* refresh is reported and the script goes on
RefreshOutcome(ok) == IF ok THEN "rerun" ELSE "done"

\* what a call of render_auth_status did: out is "skipped" (guard set),
\* "autherr" (get_access_token raised), "rerun" (st.rerun() after a refresh)
\* or "done"; auto / manual: the auto-refresh / the manual refresh called
\* refresh_access_token
RenderResult(w, out, auto, manual) ==
  [w |-> w, out |-> out, auto |-> auto, manual |-> manual]

\* get_access_token / refresh_access_token in w, for every answer out of R the
\* token endpoint can give to the request, if one is sent
GetOutcomes(w, R) ==
  {get_access_token(w, r) : r \in (IF w.cache.has THEN {FailResp} ELSE R)}

RefreshOutcomes(w, R) == {refresh_access_token(w, r) : r \in R}

\* the widgets and the manual refresh button, rendered in the state wu
ManualButton(wu, loc, clicked, auto, R) ==
  IF clicked # loc THEN {RenderResult(wu, "done", auto, FALSE)}
  ELSE {RenderResult(Track(wu.ss.osdu_token, m.w), RefreshOutcome(m.ok), auto, TRUE) :
          m \in RefreshOutcomes(wu, R)}

\* from "Remaining time" on, in the state wg get_access_token left: the two
\* auto-refresh branches, then the widgets
AutoRefresh(wg, loc, clicked, R) ==
  LET rem == seconds_remaining(wg.ss.osdu_expires_at)
      current_token == wg.ss.osdu_token
      marked == [wg EXCEPT !.ss.auto_refreshed_for_token = current_token,
                           !.ss.auto_count = IF @ < 2 THEN @ + 1 ELSE @]
  IN IF ~AutoRefreshDue(current_token, rem, wg.ss.auto_refreshed_for_token)
     THEN ManualButton(wg, loc, clicked, FALSE, R)
     ELSE UNION {IF RefreshOutcome(a.ok) = "rerun"
                 THEN {RenderResult(Track(current_token, a.w), "rerun", TRUE, FALSE)}
                 ELSE UNION {ManualButton(wa, loc, clicked, TRUE, R) :
                               wa \in {Track(current_token, a.w)}} :
                   a \in RefreshOutcomes(marked, R)}

\* render_auth_status(location): the results the call can have, over the
\* answers out of R to the requests it sends
render_auth_status(w, loc, clicked, R) ==
  IF GuardSet(w.ss, loc) THEN {RenderResult(w, "skipped", FALSE, FALSE)}
  ELSE UNION {IF ~g.ok
              THEN {RenderResult(Track(w.ss.osdu_token, g.w), "autherr", FALSE, FALSE)}
              ELSE UNION {AutoRefresh(wg, loc, clicked, R) :
                            wg \in {Track(w.ss.osdu_token, g.w)}} :
                g \in GetOutcomes([w EXCEPT !.ss = SetGuard(@, loc)], R)}

\* ------------------------------------------------------------ the machine
\* what a handler run by session s works on
World(s) == [ss |-> ss[s], cache |-> cache, file |-> envFile, environ |-> osEnviron,
             sent |-> 0]

\* the handler's effects on the shared state and on the session's own
Commit(s, w) ==
  /\ ss' = [ss EXCEPT ![s] = w.ss]
  /\ cache' = w.cache
  /\ envFile' = w.file
  /\ osEnviron' = w.environ
  /\ UNCHANGED <<flowVars, phase, fsWritable, tm>>

\* the token requests of a run are counted up to MaxSent
Sent(n) == IF n > MaxSent THEN MaxSent ELSE n

\* the run is over: its page stays in the browser
Ended(r) == [IdleRun EXCEPT !.shown = r.shown]

\* the run st.rerun() starts: the same page from its top, no widget clicked
Rerun(r) == [IdleRun EXCEPT !.pc = IF r.menu THEN "menu" ELSE "body", !.menu = r.menu]

\* the run after a render_auth_status call: st.rerun() ends it and starts the
\* next one, otherwise the script goes on
AfterRender(r, loc, res) ==
  IF res.out = "rerun" THEN Rerun(r)
  ELSE [r EXCEPT !.pc = "body",
                 !.called = @ \cup {loc},
                 !.body = IF res.out = "skipped" THEN @ ELSE @ \cup {loc},
                 !.shown = IF res.out = "done" THEN @ \cup {loc} ELSE @,
                 !.clicked = IF @ = loc THEN "none" ELSE @,
                 !.sent = Sent(@ + res.w.sent)]

\* one call of render_auth_status(loc) by session s; pop: the caller is
\* render_menu, which removes the sidebar guard first
RenderStepFrom(s, loc, pop, R) ==
  \E sess \in {IF pop THEN [ss[s] EXCEPT !.guard_sidebar = FALSE] ELSE ss[s]} :
  \E res \in render_auth_status([World(s) EXCEPT !.ss = sess], loc, run[s].clicked, R) :
    /\ Commit(s, res.w)
    /\ run' = [run EXCEPT ![s] = AfterRender(run[s], loc, res)]
    /\ ev' = [NoEv EXCEPT !.op = "render_auth_status", !.s = s,
                 !.loc = loc, !.ok = res.out # "autherr",
                 !.ret = res.w.ss.osdu_token, !.sent = res.w.sent,
                 !.out = res.out, !.auto = res.auto, !.manual = res.manual]

RenderStep(s, loc, pop) == RenderStepFrom(s, loc, pop, Responses)

\* a page is (re)loaded or one of its widgets is used: a script run starts.
\* Every page but pages/02_Workflow_Service.py begins with render_menu(); a
\* refresh button can be clicked when the run before left it on the page.
StartRun(s) ==
  /\ run[s].pc = "idle"
  /\ \E menu \in BOOLEAN, clicked \in {"none"} \cup run[s].shown :
       run' = [run EXCEPT ![s] = [IdleRun EXCEPT !.pc = IF menu THEN "menu" ELSE "body",
                                                 !.menu = menu, !.clicked = clicked]]
  /\ ev' = NoEv
  /\ UNCHANGED <<flowVars, phase, envFile, osEnviron, fsWritable, cache, ss, tm>>

\* menu.render_menu: resets the sidebar guard, then renders the sidebar status
RenderMenu(s) ==
  /\ run[s].pc = "menu"
  /\ RenderStep(s, "sidebar", TRUE)

\* the body of a page with the menu calls render_auth_status(location)
\* itself, as wellbore_search_final.py does with location="main"
CallRenderAuthStatus(s, loc) ==
  /\ run[s].pc = "body"
  /\ run[s].menu
  /\ run[s].sent < MaxSent
  /\ RenderStep(s, loc, FALSE)

\* a page body calls get_access_token(cfg); a page does not go on after it raised
PageGetTokenFrom(s, R) ==
  /\ run[s].pc = "body"
  /\ run[s].sent < MaxSent
  /\ \E g \in GetOutcomes(World(s), R) :
     \E w \in {Track(ss[s].osdu_token, g.w)} :
       /\ Commit(s, w)
       /\ run' = IF g.ok
                 THEN [run EXCEPT ![s] = [@ EXCEPT !.sent = Sent(@ + w.sent)]]
                 ELSE [run EXCEPT ![s] = Ended(@)]
       /\ ev' = [NoEv EXCEPT !.op = "get_access_token", !.s = s,
                    !.ok = g.ok, !.ret = g.token, !.sent = w.sent,
                    !.stored = g.stored, !.wrote = g.wrote]

PageGetToken(s) == PageGetTokenFrom(s, Responses)

\* the script reaches its end
EndRun(s) ==
  /\ run[s].pc = "body"
  /\ run' = [run EXCEPT ![s] = Ended(@)]
  /\ ev' = NoEv
  /\ UNCHANGED <<flowVars, phase, envFile, osEnviron, fsWritable, cache, ss, tm>>

\* ------------------------------------------------------- the environment
\* an instant n ticks later: None and unparseable stay, the past stays the past
Later(x, n) == IF x <= 0 THEN x ELSE IF x > n THEN x - n ELSE 0

\* n ticks pass: every instant in the future comes n ticks closer, and the
\* cache entry is dropped when its ttl is over
Pass(n) ==
  /\ phase' = (phase + n) % Sub
  /\ envFile' = [envFile EXCEPT !.exp = Later(@, n)]
  /\ osEnviron' = [osEnviron EXCEPT !.exp = Later(@, n)]
  /\ cache' = IF cache.has /\ cache.left <= n THEN NoCache
              ELSE [cache EXCEPT !.left = Later(@, n)]
  /\ ss' = [s \in Sessions |-> [ss[s] EXCEPT !.osdu_expires_at = Later(@, n)]]
  /\ tm' = [s \in Sessions |-> [tm[s] EXCEPT !.osdu_jwt_expires_at = Later(@, n)]]
  /\ ev' = NoEv
  /\ UNCHANGED <<flowVars, fsWritable, run>>

\* the clock read at every tick, and at every whole second
Tick == Pass(1)

TickSecond == Pass(Sub)

\* the browser opens a new session in the place of s (a new tab, a reload)
NewSession(s) ==
  /\ ss' = [ss EXCEPT ![s] = FreshSession]
  /\ tm' = [tm EXCEPT ![s] = FreshTM]
  /\ run' = [run EXCEPT ![s] = IdleRun]
  /\ ev' = NoEv
  /\ UNCHANGED <<flowVars, phase, envFile, osEnviron, fsWritable, cache>>

\* a session of the same process that is not followed here (another browser
\* tab, just opened) presses its refresh button: refresh_access_token with a
\* session state of its own, on the shared cache, file and os.environ
OtherSessionRefresh ==
  /\ \E res \in RefreshOutcomes([World("s1") EXCEPT !.ss = FreshSession], Responses) :
       /\ cache' = res.w.cache
       /\ envFile' = res.w.file
       /\ osEnviron' = res.w.environ
  /\ ev' = NoEv
  /\ UNCHANGED <<flowVars, phase, fsWritable, ss, tm, run>>

\* the server process is started again: the cache, os.environ and every
\* session are gone, the .env file stays
Restart ==
  /\ cache' = NoCache
  /\ osEnviron' = [set |-> FALSE, jwt |-> Empty, exp |-> BadExp]
  /\ ss' = [s \in Sessions |-> FreshSession]
  /\ tm' = [s \in Sessions |-> FreshTM]
  /\ run' = [s \in Sessions |-> IdleRun]
  /\ ev' = NoEv
  /\ UNCHANGED <<flowVars, phase, envFile, fsWritable>>

\* ------------------------------------------------------ the deployments
\* the .env file a deployment starts with: none, or one left by an earlier
\* process or written by hand (a good entry, a bad expiry, an empty token)
InitFiles ==
  {NoFile,
   [present |-> TRUE, jwt |-> "t1", exp |-> MaxRem],
   [present |-> TRUE, jwt |-> "t1", exp |-> BadExp],
   [present |-> TRUE, jwt |-> Empty, exp |-> MaxRem]}

\* a process that has just started
InitProcess ==
  /\ phase \in 0..(Sub - 1)
  /\ osEnviron = [set |-> FALSE, jwt |-> Empty, exp |-> BadExp]
  /\ cache = NoCache
  /\ ss = [s \in Sessions |-> FreshSession]
  /\ tm = [s \in Sessions |-> FreshTM]
  /\ run = [s \in Sessions |-> IdleRun]
  /\ ev = NoEv

\* Spec: the pages of the application, run after run, where .env cannot be
\* kept (Streamlit Cloud: no file, read-only file system)
TokenAtRest ==
  /\ InitProcess
  /\ phase = 0
  /\ envFile = NoFile
  /\ fsWritable = FALSE

Init ==
  /\ TokenAtRest
  /\ FlowsAtRest

Next ==
  \/ \E s \in Sessions : StartRun(s)
  \/ \E s \in Sessions : RenderMenu(s)
  \/ \E s \in Sessions, loc \in Locations : CallRenderAuthStatus(s, loc)
  \/ \E s \in Sessions : PageGetToken(s)
  \/ \E s \in Sessions : EndRun(s)
  \/ \E s \in Sessions : NewSession(s)
  \/ OtherSessionRefresh
  \/ TickSecond

Spec == Init /\ [][Next]_vars

\* SpecStore: the token operations of osdu_app/auth.py alone, with the .env
\* file of a local deployment
\* a caller in session s calls get_access_token(cfg)
CallGetAccessToken(s) ==
  /\ \E g \in GetOutcomes(World(s), Responses) :
       /\ Commit(s, Track(ss[s].osdu_token, g.w))
       /\ ev' = [NoEv EXCEPT !.op = "get_access_token", !.s = s,
                    !.ok = g.ok, !.ret = g.token, !.sent = g.w.sent,
                    !.stored = g.stored, !.wrote = g.wrote]
  /\ UNCHANGED run

\* a caller in session s calls refresh_access_token(cfg)
CallRefreshAccessToken(s) ==
  /\ \E r \in Responses :
     \E g \in {refresh_access_token(World(s), r)} :
       /\ Commit(s, Track(ss[s].osdu_token, g.w))
       /\ ev' = [NoEv EXCEPT !.op = "refresh_access_token", !.s = s,
                    !.ok = g.ok, !.ret = g.token, !.sent = g.w.sent,
                    !.stored = g.stored, !.wrote = g.wrote,
                    !.fetched = IF r.ok THEN r.token ELSE NoTok]
  /\ UNCHANGED run

StoreInit ==
  /\ InitProcess
  /\ envFile \in InitFiles
  /\ fsWritable \in BOOLEAN
  /\ FlowsAtRest

StoreNext ==
  \/ \E s \in Sessions : CallGetAccessToken(s)
  \/ \E s \in Sessions : CallRefreshAccessToken(s)
  \/ \E s \in Sessions : NewSession(s)
  \/ Tick
  \/ Restart

SpecStore == StoreInit /\ [][StoreNext]_vars

\* SpecLive: pages with the menu are run again and again (a timer, clicks on
\* other widgets), the refresh button is never pressed and the token endpoint
\* answers every request with a token it has not issued before (a JWT carries
\* its issue time), whose lifetime is above the early-refresh margin
LiveTokens == Tokens \cup {"t3", "t4"}

FreshResponses(s) ==
  [ok : {TRUE},
   token : LiveTokens \ {ss[s].osdu_token, ss[s].auto_refreshed_for_token, cache.token},
   expires_in : {e \in ExpiresIns : e > EarlySeconds} \cup {Absent}]

LiveStartRun(s) ==
  /\ run[s].pc = "idle"
  /\ run' = [run EXCEPT ![s] = [IdleRun EXCEPT !.pc = "menu", !.menu = TRUE]]
  /\ ev' = NoEv
  /\ UNCHANGED <<flowVars, phase, envFile, osEnviron, fsWritable, cache, ss, tm>>

LiveRenderMenu(s) ==
  /\ run[s].pc = "menu"
  /\ RenderStepFrom(s, "sidebar", TRUE, FreshResponses(s))

LiveCallRenderAuthStatus(s, loc) ==
  /\ run[s].pc = "body"
  /\ run[s].sent < MaxSent
  /\ RenderStepFrom(s, loc, FALSE, FreshResponses(s))

LivePageGetToken(s) == PageGetTokenFrom(s, FreshResponses(s))

\* the session's token is not yet within the early-refresh margin
Fresh(s) == seconds_remaining(ss[s].osdu_expires_at) > EarlySeconds

\* time goes on while the token is fresh
TickWhileFresh == (\A s \in Sessions : Fresh(s)) /\ Tick

LiveNext ==
  \/ \E s \in Sessions : LiveStartRun(s)
  \/ \E s \in Sessions : LiveRenderMenu(s)
  \/ \E s \in Sessions, loc \in Locations : LiveCallRenderAuthStatus(s, loc)
  \/ \E s \in Sessions : LivePageGetToken(s)
  \/ \E s \in Sessions : EndRun(s)
  \/ Tick

\* runs keep occurring and each comes to its end; nothing is assumed of the
\* clock once the token is within the margin
SpecLive ==
  /\ Init /\ [][LiveNext]_vars
  /\ \A s \in Sessions : WF_vars(LiveStartRun(s))
  /\ \A s \in Sessions : WF_vars(LiveRenderMenu(s))
  /\ \A s \in Sessions : WF_vars(EndRun(s))
  /\ WF_vars(TickWhileFresh)

\* -------------------------------------------------- auth/token_manager.py
\* what a token_manager call of session s works on
TMWorld(s) == [tm |-> tm[s], file |-> envFile, environ |-> osEnviron, sent |-> 0]

\* init_token_state: the session keys, and once per session the token of the
\* environment when it is there, its expiry parses and lies in the future
init_token_state(w) ==
  IF w.tm.env_loaded THEN w
  ELSE LET w1 == LoadDotenv(w)
           jwt == GetenvJwt(w1)
           exp == GetenvExp(w1)
           t1 == [w.tm EXCEPT !.env_loaded = TRUE]
       IN IF Truthy(jwt) /\ exp # NoExp /\ exp > 0
          THEN [w1 EXCEPT !.tm = [t1 EXCEPT !.osdu_jwt = jwt, !.osdu_jwt_expires_at = exp]]
          ELSE [w1 EXCEPT !.tm = t1]

\* fetch_new_jwt: one POST; raises when the answer has no access_token, and
\* when .env cannot be written (the session state is then already updated)
fetch_new_jwt(w, resp) ==
  LET expires_at == ExpiresInOf(resp.expires_in) * Sub
      w1 == [w EXCEPT !.sent = @ + 1]
      w2 == [w1 EXCEPT !.tm = [@ EXCEPT !.osdu_jwt = resp.token,
                                        !.osdu_jwt_expires_at = expires_at]]
      sv == save_token_to_env(w2, resp.token, expires_at)
  IN IF ~resp.ok THEN [w |-> w1, ok |-> FALSE, token |-> NoTok]
     ELSE IF ~sv.ok THEN [w |-> w2, ok |-> FALSE, token |-> NoTok]
     ELSE [w |-> sv.w, ok |-> TRUE, token |-> resp.token]

\* (mutant) the margin itself no longer counts as near expiry
NearExpiryStrict(exp) == seconds_remaining(exp) < EarlySeconds

\* the test of ensure_valid_jwt for "expired or near expiry"
NearExpiry(exp) == seconds_remaining(exp) <= EarlySeconds

\* ensure_valid_jwt(auto_refresh)
ensure_valid_jwt(w, auto_refresh, resp) ==
  LET w1 == init_token_state(w)
      jwt == w1.tm.osdu_jwt
      exp == w1.tm.osdu_jwt_expires_at
      keep(t) == [w |-> w1, ok |-> TRUE, token |-> t]
  IN IF ~Truthy(jwt) \/ exp = NoExp
     THEN IF auto_refresh THEN fetch_new_jwt(w1, resp) ELSE keep(NoTok)
     ELSE IF NearExpiry(exp)
     THEN IF auto_refresh THEN fetch_new_jwt(w1, resp) ELSE keep(jwt)
     ELSE keep(jwt)

\* SpecTM: auth/token_manager.py used on its own
\* a caller in session s calls ensure_valid_jwt (auth_header does, with
\* auto_refresh=True)
CallEnsureValidJwt(s, auto_refresh) ==
  /\ \E resp \in Responses :
       LET res == ensure_valid_jwt(TMWorld(s), auto_refresh, resp)
       IN /\ (res.w.sent = 0 => resp = FailResp)
          /\ tm' = [tm EXCEPT ![s] = res.w.tm]
          /\ envFile' = res.w.file
          /\ osEnviron' = res.w.environ
          /\ ev' = [NoEv EXCEPT !.op = "ensure_valid_jwt", !.s = s, !.ok = res.ok,
                       !.ret = res.token, !.sent = res.w.sent,
                       !.auto_refresh = auto_refresh,
                       !.fetched = IF res.w.sent > 0 /\ resp.ok THEN resp.token ELSE NoTok]
  /\ UNCHANGED <<flowVars, phase, fsWritable, cache, ss, run>>

TMNext ==
  \/ \E s \in Sessions, auto_refresh \in BOOLEAN : CallEnsureValidJwt(s, auto_refresh)
  \/ \E s \in Sessions : NewSession(s)
  \/ Tick
  \/ Restart

SpecTM == StoreInit /\ [][TMNext]_vars

\* C1: ensure_valid_jwt(auto_refresh=True) sends no token request and returns
\* the session's token exactly when, after init_token_state, a token and an
\* expiry are there and seconds_remaining() > TOKEN_REFRESH_EARLY_SECONDS;
\* in every other case it sends exactly one request and, when it returns,
\* returns the token of that answer, which is then the session's token.
C1_Cached(s) ==
  LET i == init_token_state(TMWorld(s))
  IN /\ Truthy(i.tm.osdu_jwt)
     /\ i.tm.osdu_jwt_expires_at # NoExp
     /\ seconds_remaining(i.tm.osdu_jwt_expires_at) > EarlySeconds

C1_EnsureValidJwt ==
  [][(ev'.op = "ensure_valid_jwt" /\ ev'.auto_refresh) =>
       IF C1_Cached(ev'.s)
       THEN /\ ev'.sent = 0 /\ ev'.ok
            /\ ev'.ret = init_token_state(TMWorld(ev'.s)).tm.osdu_jwt
            /\ tm'[ev'.s].osdu_jwt = ev'.ret
       ELSE /\ ev'.sent = 1
            /\ ev'.ok => /\ ev'.ret = ev'.fetched
                         /\ Truthy(ev'.ret)
                         /\ tm'[ev'.s].osdu_jwt = ev'.ret]_vars

\* a cached token was returned at the smallest remaining time that allows it,
\* and a token was fetched
C1_Witness ==
  /\ ev.op = "ensure_valid_jwt" /\ ev.auto_refresh /\ ev.sent = 0
  /\ seconds_remaining(tm[ev.s].osdu_jwt_expires_at) = EarlySeconds + 1

C1_WitnessFetch ==
  /\ ev.op = "ensure_valid_jwt" /\ ev.auto_refresh /\ ev.sent = 1 /\ ev.ok

\* ------------------------------------------------------------ the claims
\* the token operations of osdu_app/auth.py
TokenOps == {"get_access_token", "refresh_access_token"}

\* C2: get_access_token returns a cached token without a token request only
\* if the recorded expiry osdu_expires_at exceeds now plus the early-refresh
\* margin.
C2_CachedOnlyBeforeMargin ==
  (ev.op = "get_access_token" /\ ev.ok /\ ev.sent = 0) =>
    /\ ss[ev.s].osdu_expires_at # NoExp
    /\ ss[ev.s].osdu_expires_at > EarlySeconds * Sub

\* the .env entry is a token with an expiry that parses and lies in the future
StoredGood(file) ==
  file.present /\ file.jwt # Empty /\ file.exp # BadExp /\ file.exp > 0

\* C3: after a token operation that stored a new token in the session state
\* and wrote the file, OSDU_JWT is the session token, OSDU_JWT_EXPIRES_AT is
\* the session expiry cut to whole seconds, and load_token_from_env gives that
\* pair back while the stored expiry lies in the future.
C3_EnvMirrorsSession ==
  (ev.op \in TokenOps /\ ev.stored /\ ev.wrote) =>
    /\ envFile.present
    /\ envFile.jwt = ss[ev.s].osdu_token
    /\ envFile.exp = FormatExpiry(ss[ev.s].osdu_expires_at)
    /\ envFile.exp > 0 =>
         LET l == load_token_from_env(World(ev.s))
         IN l.token = envFile.jwt /\ l.exp = envFile.exp

\* C4: the first token operation of a session adopts the token persisted in
\* .env, with its stored expiry, if and only if the stored token is not empty
\* and the stored expiry parses and is later than now; otherwise the session
\* token and expiry are left None.
C4_AdoptIffStoredGood ==
  [][\A s \in Sessions :
       (~ss[s].osdu_loaded_env /\ ss'[s].osdu_loaded_env) =>
         LET a == LoadEnvOnce(World(s)).ss
         IN IF StoredGood(envFile)
            THEN a.osdu_token = envFile.jwt /\ a.osdu_expires_at = envFile.exp
            ELSE a.osdu_token = NoTok /\ a.osdu_expires_at = NoExp]_vars

\* C5: in a process that has just started, the first get_access_token of a
\* session returns the token persisted in .env without a token request when
\* its stored expiry lies beyond the early-refresh margin.
C5_PersistedTokenReused ==
  [][\A s \in Sessions :
       ( /\ ev'.op = "get_access_token" /\ ev'.s = s
         /\ ~cache.has /\ ~osEnviron.set /\ ~ss[s].osdu_loaded_env
         /\ StoredGood(envFile) /\ envFile.exp > EarlySeconds * Sub )
       => (ev'.ok /\ ev'.sent = 0 /\ ev'.ret = envFile.jwt)]_vars

\* C6: within one script run of a session at most one request is sent to the
\* token endpoint.
C6_OneRequestPerRun == \A s \in Sessions : run[s].sent <= 1

\* C7: while the session token keeps one value, the auto-refresh branches of
\* render_auth_status call refresh_access_token at most once, over all runs
\* and both locations.
C7_AutoRefreshOncePerToken == \A s \in Sessions : ss[s].auto_count <= 1

\* an auto-refresh failed, its token stayed, and render_auth_status ran again
\* without another auto-refresh
C7_Witness ==
  /\ ev.op = "render_auth_status" /\ ev.out = "done" /\ ~ev.auto
  /\ ss[ev.s].auto_count = 1
  /\ seconds_remaining(ss[ev.s].osdu_expires_at) <= EarlySeconds

\* C8: when runs of a page with render_auth_status keep occurring and the
\* token endpoint keeps answering, a session token T whose remaining
\* lifetime is at or below the early-refresh margin is eventually replaced by
\* another token whose remaining lifetime is above the margin (the refresh
\* button is never pressed in SpecLive).
C8_ProactiveRefresh ==
  \A s \in Sessions, T \in LiveTokens :
    (ss[s].osdu_token = T /\ ~Fresh(s))
      ~> (Truthy(ss[s].osdu_token) /\ ss[s].osdu_token # T /\ Fresh(s))

\* the auto-refresh of render_auth_status has just replaced a token that was
\* within the margin, and st.rerun() started the next run
C8_Witness ==
  /\ ev.op = "render_auth_status" /\ ev.out = "rerun" /\ ev.auto
  /\ Fresh(ev.s) /\ ss[ev.s].auto_refreshed_for_token # NoTok
  /\ ss[ev.s].auto_refreshed_for_token # ss[ev.s].osdu_token

\* C9: a call of render_auth_status for a location that was already called
\* in the same run returns at once: no token request, no change of the
\* session state, nothing rendered.
C9_BodyOncePerRun ==
  [][\A s \in Sessions, loc \in Locations :
       ( /\ ev'.op = "render_auth_status" /\ ev'.s = s /\ ev'.loc = loc
         /\ loc \in run[s].called )
       => (ev'.out = "skipped" /\ ev'.sent = 0 /\ ss'[s] = ss[s])]_vars

\* the second call for a location whose body ran in this run
C9_Witness ==
  /\ ev.op = "render_auth_status" /\ ev.out = "skipped"
  /\ ev.loc \in run[ev.s].body

\* C10: in every script run the first call of render_auth_status for a
\* location runs its body, for "sidebar" and for "main".
C10_FirstCallRenders ==
  [][\A s \in Sessions, loc \in Locations :
       ( /\ ev'.op = "render_auth_status" /\ ev'.s = s /\ ev'.loc = loc
         /\ loc \notin run[s].called )
       => ev'.out # "skipped"]_vars

\* C11: a get_access_token call that obtains the token the session already
\* has, while the session's expiry is set and in the future, leaves
\* osdu_token, osdu_expires_at and the .env file as they were.
C11_ExpiryNotReset ==
  [][\A s \in Sessions :
       ( /\ ev'.op = "get_access_token" /\ ev'.s = s /\ ev'.ok
         /\ Truthy(ss[s].osdu_token) /\ ev'.ret = ss[s].osdu_token
         /\ ss[s].osdu_expires_at # NoExp /\ ss[s].osdu_expires_at > 0 )
       => ( /\ ss'[s].osdu_token = ss[s].osdu_token
            /\ ss'[s].osdu_expires_at = ss[s].osdu_expires_at
            /\ envFile' = envFile /\ ~ev'.stored )]_vars

\* get_access_token returned the session's token before its expiry, the clock
\* having moved since that expiry was set, and stored nothing
C11_Witness ==
  /\ ev.op = "get_access_token" /\ ev.ok /\ ~ev.stored
  /\ ev.ret = ss[ev.s].osdu_token
  /\ ss[ev.s].osdu_expires_at > 0
  /\ cache.has /\ ss[ev.s].osdu_expires_at < ExpiresInOf(cache.expires_in) * Sub

\* C12: refresh_access_token sends exactly one token request whatever the
\* cache holds; when it succeeds it returns the token of that response, which
\* is then the session's osdu_token and the content of the cache.
C12_RefreshFetchesAnew ==
  [][\A s \in Sessions :
       (ev'.op = "refresh_access_token" /\ ev'.s = s)
       => /\ ev'.sent = 1
          /\ ev'.ok => /\ ev'.ret = ev'.fetched
                       /\ ss'[s].osdu_token = ev'.fetched
                       /\ cache'.has /\ cache'.token = ev'.fetched
                       /\ cache'.left = CacheTtl * Sub
          /\ ~ev'.ok => ~cache'.has]_vars

\* a refresh succeeded and replaced the session's token by another one
C12_Witness ==
  /\ ev.op = "refresh_access_token" /\ ev.ok /\ ev.sent = 1 /\ ev.stored
  /\ ss[ev.s].osdu_token = ev.fetched
  /\ ss[ev.s].auto_count = 0

\* C13: when the .env file cannot be written, a token operation whose token
\* request (or cache lookup) succeeded still succeeds: it returns the token,
\* the session state holds the token and, when it was due to be updated, the
\* new expiry; the file is left as it was.
C13_SaveFailureTolerated ==
  [][\A s \in Sessions :
       (ev'.op \in TokenOps /\ ev'.s = s /\ ~fsWritable /\ cache'.has)
       => /\ ev'.ok /\ ev'.ret = cache'.token /\ ~ev'.wrote
          /\ ss'[s].osdu_token = ev'.ret
          /\ ev'.stored => ss'[s].osdu_expires_at = ExpiresInOf(cache'.expires_in) * Sub
          /\ envFile' = envFile]_vars

\* a new token was stored in the session while the file could not be written
C13_Witness ==
  /\ ev.op \in TokenOps /\ ev.ok /\ ev.stored /\ ~ev.wrote /\ ev.sent = 1
  /\ ~fsWritable /\ ss[ev.s].osdu_token = ev.ret


\* ------------------------------------------------ streamlit_app.py: ingestion
\* the text of a text input, as its characters
MaxText == 2
PollLimit == 3
Chars == {",", " ", "a"}
Texts == UNION {[1..n -> Chars] : n \in 0..MaxText}
Templates == {"ok", "nodata", "invalid"}
Terminal == {"finished", "completed", "success", "failed", "error"}
Statuses == Terminal \cup {"running", "SUCCESS", "nostatus"}

\* s.split(","): the fields between the commas, the one being read last
RECURSIVE Split(_, _)
Split(s, field) ==
  IF s = <<>> THEN <<field>>
  ELSE IF Head(s) = "," THEN <<field>> \o Split(Tail(s), <<>>)
  ELSE Split(Tail(s), Append(field, Head(s)))

RECURSIVE LStrip(_)
LStrip(x) ==
  IF x # <<>> /\ Head(x) = " " THEN LStrip(Tail(x)) ELSE x

RECURSIVE RStrip(_)
RStrip(x) ==
  IF x # <<>> /\ x[Len(x)] = " " THEN RStrip(SubSeq(x, 1, Len(x) - 1)) ELSE x

Strip(x) == RStrip(LStrip(x))

NonBlank(x) == Strip(x) # <<>>

csv_to_list(s) ==
  [i \in 1..Len(SelectSeq(Split(s, <<>>), NonBlank)) |->
     Strip(SelectSeq(Split(s, <<>>), NonBlank)[i])]

Lists == {csv_to_list(s) : s \in Texts}

\* a template, as far as the record's acl and legal parts go: "data" is
\* an object or missing; "acl" and "legal" are missing, null or an object;
\* a key of "legal" is missing or holds a value
Key(value) == [present |-> TRUE, value |-> value]
NoKey == [present |-> FALSE, value |-> <<>>]
AclPart(kind, owners, viewers) ==
  [kind |-> kind, owners |-> owners, viewers |-> viewers]
LegalPart(kind, legaltags, countries, status) ==
  [kind |-> kind, legaltags |-> legaltags,
   otherRelevantDataCountries |-> countries, status |-> status]
Template(data, acl, legal) == [data |-> data, acl |-> acl, legal |-> legal]

default_template ==
  Template("object", AclPart("object", <<>>, <<>>),
           LegalPart("object", <<>>, Key(<<"US">>), Key(<<"compliant">>)))

TemplateOf(kind) ==
  IF kind = "nodata" THEN [default_template EXCEPT !.data = "absent"]
  ELSE default_template

\* dict.setdefault: the value of a key that is there is kept
SetDefault(key, value) == IF key.present THEN key ELSE Key(value)

\* the copy after lines 81-100
Filled(record, acl_owners, acl_viewers, legal_tags) ==
  [record EXCEPT
     !.acl = AclPart("object", acl_owners, acl_viewers),
     !.legal = LegalPart("object", legal_tags,
                 SetDefault(IF @.kind = "object"
                              THEN @.otherRelevantDataCountries ELSE NoKey,
                            <<"US">>),
                 SetDefault(IF @.kind = "object" THEN @.status ELSE NoKey,
                            <<"compliant">>))]

Aliased(template, record) == record

\* json.loads(json.dumps(template)): the record is another object, of the
\* same value, and the template is not written to
DeepCopied(template, record) == template

build_file_generic_metadata(template, acl_owners, acl_viewers, legal_tags) ==
  IF template.data # "object" \/ template.acl.kind = "null"
       \/ template.legal.kind = "null"
    THEN [raised |-> TRUE, record |-> template, template |-> template]
  ELSE [raised |-> FALSE,
        record |-> Filled(template, acl_owners, acl_viewers, legal_tags),
        template |-> DeepCopied(template,
                       Filled(template, acl_owners, acl_viewers, legal_tags))]

\* the record as create_metadata posts it
Posted(built) ==
  [sent |-> TRUE, owners |-> built.record.acl.owners,
   viewers |-> built.record.acl.viewers,
   legaltags |-> built.record.legal.legaltags]

AclNeverMissing(acl_owners, acl_viewers) == FALSE

AclMissing(acl_owners, acl_viewers) ==
  acl_owners = <<>> \/ acl_viewers = <<>>

Request(api, answer) ==
  [ing EXCEPT !.log = Append(@, api), !.last = answer]
Stopped(g) == [g EXCEPT !.pc = "ended", !.out = "stopped"]
Raised(g) == [g EXCEPT !.pc = "ended", !.out = "raised"]
Shown(g) == [g EXCEPT !.pc = "ended", !.out = "error shown"]
Done(g) == [g EXCEPT !.pc = "ended", !.out = "done"]
Step(g, pc) == [g EXCEPT !.pc = pc]

\* the run in which Submit is clicked, up to the two clients
Inputs(flow, template, acl_owners, acl_viewers, legal_tags) ==
  [ing EXCEPT !.flow = flow, !.owners = acl_owners, !.viewers = acl_viewers,
              !.legal_tags = legal_tags, !.template = template]

\* the checks before the ACL lists are read: the file, its header when
\* the box is ticked, the template text
PreCheckSkipped(uploaded, validate_headers, csv_ok, template) == FALSE

PreCheckFailed(uploaded, validate_headers, csv_ok, template) ==
  \/ ~uploaded
  \/ validate_headers /\ ~csv_ok
  \/ template = "invalid"

Uploaded(g, uploaded, validate_headers, csv_ok) ==
  [g EXCEPT !.uploaded = uploaded, !.validate_headers = validate_headers,
            !.csv_ok = csv_ok]

SubmitChecks(g, token_ok) ==
  IF PreCheckFailed(g.uploaded, g.validate_headers, g.csv_ok, g.template)
    THEN Stopped(g)
  ELSE IF AclMissing(g.owners, g.viewers) THEN Stopped(g)
  ELSE IF ~token_ok THEN Raised(g)
  ELSE Step(g, "uploadURL")

Submit ==
  /\ ing.pc = "idle"
  /\ \E uploaded, validate_headers, csv_ok, token_ok \in BOOLEAN,
        template \in Templates, acl_owners, acl_viewers, legal_tags \in Lists :
       ing' = SubmitChecks(
                Uploaded(Inputs("submit", template, acl_owners, acl_viewers,
                                legal_tags), uploaded, validate_headers, csv_ok),
                token_ok)
  /\ UNCHANGED <<vars, call>>

\* what a request comes to: the call raises ("fail"), or returns JSON that
\* holds what the page reads from it ("ok"), is an object without it
\* ("empty"), or is not of the shape the page reads ("garbled": no
\* object, or a Location that is none)
Answers == {"ok", "empty", "garbled", "fail"}

SignedUrlOf(api) == <<"SignedURL of", api>>
Landed(g, api) == [g EXCEPT !.signed_url = SignedUrlOf(api)]

\* 1) landing zone: the modern endpoint, then the legacy one; the try
\* block holds the call and the reading of its response
GetUploadUrl(answer) ==
  /\ ing.flow = "submit" /\ ing.pc = "uploadURL"
  /\ ing' = IF answer = "ok"
              THEN Step(Landed(Request("uploadURL", answer), "uploadURL"), "upload")
            ELSE IF answer = "empty" THEN Stopped(Request("uploadURL", answer))
            ELSE Step(Request("uploadURL", answer), "getLocation")
  /\ UNCHANGED <<vars, call>>

GetUploadLocationLegacy(answer) ==
  /\ ing.flow = "submit" /\ ing.pc = "getLocation"
  /\ ing' = IF answer = "ok"
              THEN Step(Landed(Request("getLocation", answer), "getLocation"), "upload")
            ELSE IF answer = "empty" THEN Stopped(Request("getLocation", answer))
            ELSE Raised(Request("getLocation", answer))
  /\ UNCHANGED <<vars, call>>

\* 2) the upload to the signed URL
UploadUnchecked(answer) ==
  /\ ing.flow = "submit" /\ ing.pc = "upload"
  /\ ing' = Step(Request("upload", answer), "metadata")
  /\ UNCHANGED <<vars, call>>

UploadToSignedUrl(answer) ==
  /\ ing.flow = "submit" /\ ing.pc = "upload"
  /\ ing' = IF answer = "fail" THEN Raised(Request("upload", answer))
            ELSE Step(Request("upload", answer), "metadata")
  /\ UNCHANGED <<vars, call>>

\* 3) the metadata record, built from the template and sent
RecordIds == {"id1", "id2"}

CreateMetadata(answer, id) ==
  /\ ing.flow = "submit" /\ ing.pc = "metadata"
  /\ \E built \in {build_file_generic_metadata(TemplateOf(ing.template),
                      ing.owners, ing.viewers, ing.legal_tags)} :
     \E g \in {[Request("metadata", answer) EXCEPT !.record = Posted(built)]} :
       ing' = IF built.raised THEN Raised(ing)
              ELSE IF answer = "ok"
                THEN Step([g EXCEPT !.last_file_record_id = id], "trigger")
              ELSE IF answer = "empty" THEN Stopped(g)
              ELSE Raised(g)
  /\ UNCHANGED <<vars, call>>

\* 4) the workflow trigger
Trigger(answer) ==
  /\ ing.flow = "submit" /\ ing.pc = "trigger"
  /\ ing' = IF answer = "fail" THEN Raised(Request("trigger", answer))
            ELSE Step(Request("trigger", answer), "poll")
  /\ UNCHANGED <<vars, call>>

\* 5) one turn of the polling loop: the status request and what follows it
PollNoBreak(status) == FALSE

PollBreak(status) == status \in Terminal

PollStatus(status, token_ok, fail) ==
  /\ ing.pc = "poll"
  /\ ing.polls < PollLimit
  /\ \E g \in {[Request("status", IF fail THEN "fail" ELSE "ok") EXCEPT
                  !.polls = @ + 1]} :
       ing' = IF ing.flow = "workflow page" /\ ~token_ok THEN Shown(ing)
              ELSE IF fail
                THEN (IF ing.flow = "submit" THEN Raised(g) ELSE Shown(g))
              ELSE IF PollBreak(status)
                THEN Done([g EXCEPT !.seen = @ \/ status \in Terminal])
              ELSE Step([g EXCEPT !.seen = @ \/ status \in Terminal], "sleep")
  /\ UNCHANGED <<vars, call>>

\* time.sleep(5), then the next turn if one is left
PollSleep ==
  /\ ing.pc = "sleep"
  /\ \E g \in {[ing EXCEPT !.slept = @ + 1]} :
       ing' = IF ing.polls < PollLimit THEN Step(g, "poll") ELSE Done(g)
  /\ UNCHANGED <<vars, call>>

\* tool C: create one metadata record for a file source
ToolCreateMetadataRun(g, file_source, token_ok, answer, id) ==
  IF ~file_source \/ g.template = "invalid" THEN Stopped(g)
  ELSE IF AclMissing(g.owners, g.viewers) THEN Stopped(g)
  ELSE IF ~token_ok THEN Shown(g)
  ELSE IF build_file_generic_metadata(TemplateOf(g.template), g.owners,
                                      g.viewers, g.legal_tags).raised
    THEN Shown(g)
  ELSE IF answer \in {"fail", "garbled"}
    THEN Shown([g EXCEPT !.log = Append(@, "metadata"), !.last = answer,
                         !.record = Posted(build_file_generic_metadata(
                                      TemplateOf(g.template), g.owners,
                                      g.viewers, g.legal_tags))])
  ELSE Done([g EXCEPT !.log = Append(@, "metadata"), !.last = answer,
                      !.record = Posted(build_file_generic_metadata(
                                   TemplateOf(g.template), g.owners,
                                   g.viewers, g.legal_tags)),
                      !.last_file_record_id =
                         IF answer = "ok" THEN id ELSE @])

ToolCreateMetadata ==
  /\ ing.pc = "idle"
  /\ \E file_source, token_ok \in BOOLEAN, template \in Templates,
        acl_owners, acl_viewers, legal_tags \in Lists, answer \in Answers,
        id \in RecordIds :
       ing' = ToolCreateMetadataRun(
                Inputs("toolC", template, acl_owners, acl_viewers, legal_tags),
                file_source, token_ok, answer, id)
  /\ UNCHANGED <<vars, call>>

\* pages/02_Workflow_Service.py: the run with "Poll every 5s" checked
WorkflowPagePoll(wf_name, run_id) ==
  /\ ing.pc = "idle"
  /\ ing' = IF wf_name /\ run_id
            THEN [ing EXCEPT !.flow = "workflow page", !.pc = "poll"]
            ELSE Done([ing EXCEPT !.flow = "workflow page"])
  /\ UNCHANGED <<vars, call>>

\* the script run is over; the next interaction starts another
EndIngestRun ==
  /\ ing.pc = "ended"
  /\ ing' = [IdleIng EXCEPT !.last_file_record_id = ing.last_file_record_id]
  /\ UNCHANGED <<vars, call>>

\* the token is left at rest: the clients obtain it or fail to
IngestInit ==
  /\ Init

IngestNext ==
  \/ Submit
  \/ \E answer \in Answers : GetUploadUrl(answer)
  \/ \E answer \in Answers : GetUploadLocationLegacy(answer)
  \/ \E answer \in Answers : UploadToSignedUrl(answer)
  \/ \E answer \in Answers, id \in RecordIds : CreateMetadata(answer, id)
  \/ \E answer \in Answers : Trigger(answer)
  \/ \E status \in Statuses, token_ok, fail \in BOOLEAN :
       PollStatus(status, token_ok, fail)
  \/ PollSleep
  \/ ToolCreateMetadata
  \/ \E wf_name, run_id \in BOOLEAN : WorkflowPagePoll(wf_name, run_id)
  \/ EndIngestRun

\* every request returns or times out, and every sleep ends
PollTurn ==
  \E status \in Statuses, token_ok, fail \in BOOLEAN :
     PollStatus(status, token_ok, fail)

SpecIngest ==
  /\ IngestInit
  /\ [][IngestNext]_allVars
  /\ WF_allVars(PollTurn)
  /\ WF_allVars(PollSleep)

\* C14: a polling loop sends at most PollLimit status requests, sleeps
\* between any two of them, sends none once a terminal status was seen,
\* and comes to its end
C14_PollingTerminates ==
  /\ [][ing'.polls > ing.polls =>
          /\ ing.polls < PollLimit
          /\ ing'.polls = ing.polls + 1
          /\ ing.slept = ing.polls
          /\ ~ing.seen]_allVars
  /\ [][(ing.pc = "poll" /\ ing'.seen /\ ~ing.seen) => ing'.pc = "ended"]_allVars
  /\ (ing.pc \in {"poll", "sleep"} ~> ing.pc = "ended")

C14_Witness ==
  /\ ing.pc = "ended" /\ ing.out = "done" /\ ing.seen
  /\ ing.polls = 2 /\ ing.slept = 1

C14_WitnessLimit ==
  /\ ing.pc = "ended" /\ ing.out = "done" /\ ~ing.seen
  /\ ing.polls = PollLimit /\ ing.slept = PollLimit

\* C15: no create-metadata request of the ingestion page carries a record
\* whose legal.legaltags list is empty
C15_LegalTagsNeverEmpty ==
  ing.record.sent => ing.record.legaltags # <<>>

\* C16: a record sent to the File service has an ACL owner and an ACL
\* viewer, and a flow whose owners or viewers field parses to the empty
\* list is stopped with an error before any request
C16_AclRequired ==
  /\ ing.record.sent =>
       /\ ing.record.owners = ing.owners /\ ing.record.owners # <<>>
       /\ ing.record.viewers = ing.viewers /\ ing.record.viewers # <<>>
  /\ (ing.flow \in {"submit", "toolC"} /\ (ing.owners = <<>> \/ ing.viewers = <<>>))
       => (ing.log = <<>> /\ ing.pc = "ended" /\ ing.out = "stopped")

C16_Witness ==
  /\ ing.flow = "submit" /\ ing.out = "stopped"
  /\ ing.owners # <<>> /\ ing.viewers = <<>> /\ ing.log = <<>>

C16_WitnessSent ==
  /\ ing.flow = "toolC" /\ ing.record.sent /\ ing.record.legaltags # <<>>

\* C20: the Submit flow sends its requests in the order landing zone,
\* upload, create metadata, trigger, status, each one only after the
\* request before it succeeded
LastRequest == IF ing.log = <<>> THEN "none" ELSE ing.log[Len(ing.log)]

C20_StepsInOrder ==
  [][(ing.flow = "submit" /\ Len(ing'.log) > Len(ing.log)) =>
       /\ Len(ing'.log) = Len(ing.log) + 1
       /\ \E api \in {ing'.log[Len(ing'.log)]} :
            /\ api = "uploadURL" => LastRequest = "none"
            /\ api = "getLocation" => LastRequest = "uploadURL"
            /\ api = "upload" =>
                 (LastRequest \in {"uploadURL", "getLocation"} /\ ing.last = "ok")
            /\ api = "metadata" => (LastRequest = "upload" /\ ing.last # "fail")
            /\ api = "trigger" => (LastRequest = "metadata" /\ ing.last = "ok")
            /\ api = "status" =>
                 \/ LastRequest = "trigger" /\ ing.last # "fail"
                 \/ LastRequest = "status" /\ ing.last = "ok"]_allVars

C20_Witness ==
  /\ ing.flow = "submit" /\ ing.out = "done"
  /\ ing.log = <<"uploadURL", "getLocation", "upload", "metadata", "trigger",
                 "status", "status">>

\* ------------------------------------------------ osdu_app/validators.py
\* column names are sequences of characters
MaxDropped == 1
MaxRows == 1
REQUIRED_WELLBORE_COLUMNS_V1 ==
  {<<"U", "W", "I">>,
   <<"N", "a", "m", "e">>,
   <<"L", "a", "t", "i", "t", "u", "d", "e">>,
   <<"L", "o", "n", "g", "i", "t", "u", "d", "e">>,
   <<"T", "D">>,
   <<"S", "p", "u", "d", "D", "a", "t", "e">>,
   <<"W", "e", "l", "l", "T", "y", "p", "e">>}

REQUIRED_BOREHOLE_MIN ==
  {<<"w", "e", "l", "l", "n", "a", "m", "e">>,
   <<"u", "w", "i">>,
   <<"l", "a", "t", "i", "t", "u", "d", "e", "w", "g", "s", "8", "4">>,
   <<"l", "o", "n", "g", "i", "t", "u", "d", "e", "w", "g", "s", "8", "4">>,
   <<"s", "t", "a", "r", "t", "d", "a", "t", "e">>}

OPTIONAL_BOREHOLE ==
  {<<"e", "n", "d", "d", "a", "t", "e">>,
   <<"o", "u", "t", "c", "o", "m", "e", "i", "d">>,
   <<"w", "e", "l", "l", "s", "t", "a", "t", "u", "s">>,
   <<"w", "e", "l", "l", "b", "o", "r", "e", "o", "r", "i", "e", "n", "t", "a", "t", "i", "o", "n">>,
   <<"b", "o", "r", "e", "h", "o", "l", "e", "t", "v", "d">>,
   <<"r", "e", "f", "e", "r", "e", "n", "c", "e", "l", "e", "v", "e", "l">>,
   <<"r", "e", "f", "e", "r", "e", "n", "c", "e", "l", "e", "v", "e", "l", "h", "e", "i", "g", "h", "t">>,
   <<"o", "p", "e", "r", "a", "t", "o", "r", "i", "d">>,
   <<"d", "r", "i", "l", "l", "i", "n", "g", "r", "i", "g", "i", "d">>,
   <<"d", "r", "i", "l", "l", "i", "n", "g", "c", "o", "m", "p", "a", "n", "y">>}

UpperCase == <<"A", "B", "C", "D", "E", "F", "G", "H", "I", "J", "K", "L", "M", "N", "O", "P", "Q", "R", "S", "T", "U", "V", "W", "X", "Y", "Z">>
LowerCase == <<"a", "b", "c", "d", "e", "f", "g", "h", "i", "j", "k", "l", "m", "n", "o", "p", "q", "r", "s", "t", "u", "v", "w", "x", "y", "z">>

LowerChar(c) ==
  IF \E i \in 1..26 : UpperCase[i] = c
  THEN LowerCase[CHOOSE i \in 1..26 : UpperCase[i] = c]
  ELSE c

UpperChar(c) ==
  IF \E i \in 1..26 : LowerCase[i] = c
  THEN UpperCase[CHOOSE i \in 1..26 : LowerCase[i] = c]
  ELSE c

NoLower(s) == s

lower(s) == [i \in 1..Len(Strip(s)) |-> LowerChar(Strip(s)[i])]

\* the result of one call: ok, the message and its lists, row_count
Result(ok, msg, missing_v1, missing_bh, missing_opt, row_count) ==
  [ok |-> ok, msg |-> msg, missing_v1 |-> missing_v1,
   missing_bh |-> missing_bh, missing_opt |-> missing_opt,
   row_count |-> row_count]

\* what pd.read_csv made of the bytes: no frame, or its columns and rows
validate_wellbore_csv(readable, columns, rows) ==
  IF ~readable THEN Result(FALSE, "CSV read failed", {}, {}, {}, 0)
  ELSE IF REQUIRED_WELLBORE_COLUMNS_V1 \subseteq columns
    THEN Result(TRUE, "OK (legacy V1)", {}, {}, {}, rows)
  ELSE IF REQUIRED_BOREHOLE_MIN \subseteq {lower(c) : c \in columns}
    THEN Result(TRUE, "OK (borehole schema)", {}, {},
                OPTIONAL_BOREHOLE \ {lower(c) : c \in columns}, rows)
  ELSE Result(FALSE, "Unrecognized header set",
              REQUIRED_WELLBORE_COLUMNS_V1 \ columns,
              REQUIRED_BOREHOLE_MIN \ {lower(c) : c \in columns}, {}, rows)

\* the files tried: the legacy columns but a few, and each Borehole or
\* optional column absent, as it is spelt, or capitalised between blanks
Spellings == {"absent", "plain", "padded"}
Padded(name) ==
  <<" ">> \o [i \in 1..Len(name) |-> IF i = 1 THEN UpperChar(name[i]) ELSE name[i]]
          \o <<" ">>

Spelt(name, how) ==
  IF how = "absent" THEN {} ELSE IF how = "plain" THEN {name} ELSE {Padded(name)}

Columns(c) ==
  (REQUIRED_WELLBORE_COLUMNS_V1 \ c.dropped)
    \cup UNION {Spelt(name, c.bh[name]) : name \in REQUIRED_BOREHOLE_MIN}
    \cup Spelt(<<"e", "n", "d", "d", "a", "t", "e">>, c.enddate)

CallValidateWellboreCsv ==
  /\ call.fn = "validate_wellbore_csv" /\ ~call.done
  /\ call' = [call EXCEPT !.done = TRUE,
                          !.result = validate_wellbore_csv(
                                       call.readable, Columns(call), call.rows)]
  /\ UNCHANGED <<vars, ing>>

CsvInit ==
  /\ TokenAtRest
  /\ ing = IdleIng
  /\ call \in
      {[fn |-> "validate_wellbore_csv", readable |-> TRUE, dropped |-> d,
        bh |-> b, enddate |-> e, rows |-> n, done |-> FALSE, result |-> "none"] :
         d \in {x \in SUBSET REQUIRED_WELLBORE_COLUMNS_V1 : Cardinality(x) <= MaxDropped},
         b \in [REQUIRED_BOREHOLE_MIN -> Spellings],
         e \in {"absent", "plain"}, n \in 0..MaxRows}
      \cup
      {[fn |-> "validate_wellbore_csv", readable |-> FALSE, dropped |-> {},
        bh |-> [name \in REQUIRED_BOREHOLE_MIN |-> "absent"], enddate |-> "absent",
        rows |-> 0, done |-> FALSE, result |-> "none"]}

CsvNext ==
  \/ CallValidateWellboreCsv

SpecCsv == CsvInit /\ [][CsvNext]_allVars

\* C17: validate_wellbore_csv accepts a file exactly when its columns hold
\* the seven legacy names as they are spelt or, stripped and lower-cased,
\* the five Borehole names; the legacy message wins; a rejected file is
\* told the names missing for each schema; the count is that of the data
\* rows; an unreadable file gives (False, "CSV read failed", 0)
HasBorehole(c, name) ==
  \/ c.bh[name] # "absent"
  \/ name = <<"u", "w", "i">> /\ <<"U", "W", "I">> \notin c.dropped

C17_ValidatesHeaders ==
  (call.fn = "validate_wellbore_csv" /\ call.done) =>
    \E r \in {call.result} :
      IF ~call.readable
        THEN r.ok = FALSE /\ r.msg = "CSV read failed" /\ r.row_count = 0
      ELSE
        /\ r.row_count = call.rows
        /\ r.ok <=> \/ call.dropped = {}
                    \/ \A name \in REQUIRED_BOREHOLE_MIN : HasBorehole(call, name)
        /\ call.dropped = {} => r.msg = "OK (legacy V1)"
        /\ (r.ok /\ call.dropped # {}) => r.msg = "OK (borehole schema)"
        /\ ~r.ok =>
             /\ r.msg = "Unrecognized header set"
             /\ r.missing_v1 = call.dropped
             /\ r.missing_bh =
                  {name \in REQUIRED_BOREHOLE_MIN : ~HasBorehole(call, name)}

C17_Witness ==
  /\ call.fn = "validate_wellbore_csv" /\ call.done
  /\ call.result.ok /\ call.result.msg = "OK (borehole schema)"
  /\ \E name \in REQUIRED_BOREHOLE_MIN : call.bh[name] = "padded"
  /\ call.bh[<<"u", "w", "i">>] = "absent"
  /\ call.result.row_count = 1

C17_WitnessBoth ==
  /\ call.fn = "validate_wellbore_csv" /\ call.done
  /\ call.result.msg = "OK (legacy V1)"
  /\ \A name \in REQUIRED_BOREHOLE_MIN : call.bh[name] = "plain"

C17_WitnessRejected ==
  /\ call.fn = "validate_wellbore_csv" /\ call.done
  /\ ~call.result.ok /\ call.readable
  /\ call.result.missing_v1 # {} /\ call.result.missing_bh # {}

\* ------------------------------------------------ get_acl_streamlit.py
\* the three endpoints, in the order of the code
Path1 == "/members/{email}/groups"
Path2 == "/groups?memberEmail={email}"
Path3 == "/groups"
Paths == <<Path1, Path2, Path3>>
Emails == {"", "user@example.com"}
HttpStatuses == {200, 403}

\* what an endpoint does with a request: no response, or a status and a
\* body that is JSON or not
NoResponse == [error |-> TRUE, status |-> 0, json |-> FALSE]
EndpointAnswers ==
  {NoResponse} \cup
  {[error |-> FALSE, status |-> st, json |-> j] : st \in HttpStatuses, j \in BOOLEAN}

json_or_empty(path, a) == IF a.json THEN <<"json of", path>> ELSE <<"{}">>

Returned(status, body, path, sent) ==
  [raised |-> FALSE, status |-> status, body |-> body, path |-> path, sent |-> sent]

RequestFailed(sent) ==
  [raised |-> TRUE, status |-> 0, body |-> <<"{}">>, path |-> "none", sent |-> sent]

AnsweredAny(a) == TRUE

Answered200(a) == a.status = 200

GroupsFallback(ans, sent) ==
  IF ans[3].error THEN RequestFailed(Append(sent, Path3))
  ELSE IF Answered200(ans[3])
    THEN Returned(200, json_or_empty(Path3, ans[3]), Path3, Append(sent, Path3))
  ELSE Returned(ans[3].status, json_or_empty(Path3, ans[3]), Path3,
                Append(sent, Path3))

GroupsByQuery(member_email, ans, sent) ==
  IF member_email = "" THEN GroupsFallback(ans, sent)
  ELSE IF ans[2].error THEN RequestFailed(Append(sent, Path2))
  ELSE IF Answered200(ans[2])
    THEN Returned(200, json_or_empty(Path2, ans[2]), Path2, Append(sent, Path2))
  ELSE GroupsFallback(ans, Append(sent, Path2))

get_groups_for_member(member_email, ans) ==
  IF member_email = "" THEN GroupsByQuery(member_email, ans, <<>>)
  ELSE IF ans[1].error THEN RequestFailed(<<Path1>>)
  ELSE IF Answered200(ans[1])
    THEN Returned(200, json_or_empty(Path1, ans[1]), Path1, <<Path1>>)
  ELSE GroupsByQuery(member_email, ans, <<Path1>>)

\* st.cache_data: a value that was returned for the same arguments is
\* returned again and the function is not run
NotCached == [raised |-> TRUE, status |-> 0, body |-> <<"{}">>, path |-> "none", sent |-> <<>>]
GroupsIdle ==
  [fn |-> "get_groups_for_member_cached",
   cached |-> [e \in Emails |-> NotCached],
   member_email |-> "", hit |-> FALSE, done |-> FALSE,
   answers |-> <<NoResponse, NoResponse, NoResponse>>, result |-> NotCached]

CallGetGroupsForMemberCached ==
  /\ call.fn = "get_groups_for_member_cached"
  /\ \E member_email \in Emails :
       IF ~call.cached[member_email].raised
       THEN call' = [call EXCEPT !.member_email = member_email, !.hit = TRUE,
                       !.done = TRUE, !.answers = GroupsIdle.answers,
                       !.result = [call.cached[member_email] EXCEPT !.sent = <<>>]]
       ELSE \E ans \in [1..3 -> EndpointAnswers] :
            \E r \in {get_groups_for_member(member_email, ans)} :
              call' = [call EXCEPT !.member_email = member_email, !.hit = FALSE,
                         !.done = TRUE, !.answers = ans, !.result = r,
                         !.cached[member_email] = IF r.raised THEN @ ELSE r]
  /\ UNCHANGED <<vars, ing>>

\* the server process is started again: the cache is empty
GroupsRestart ==
  /\ call.fn = "get_groups_for_member_cached"
  /\ call' = GroupsIdle
  /\ UNCHANGED <<vars, ing>>

GroupsInit ==
  /\ TokenAtRest
  /\ ing = IdleIng
  /\ call = GroupsIdle

GroupsNext ==
  \/ CallGetGroupsForMemberCached
  \/ GroupsRestart

SpecGroups == GroupsInit /\ [][GroupsNext]_allVars

\* C18: a run of get_groups_for_member_cached asks the endpoints in their
\* order, the first two only for a non-empty email, returns at the first
\* 200 without a later request, else returns status and body of the
\* third, and sends at most three requests
Asked(email) == IF email = "" THEN <<3>> ELSE <<1, 2, 3>>

First200(email, ans) ==
  {i \in 1..Len(Asked(email)) :
     /\ ans[Asked(email)[i]].status = 200
     /\ \A j \in 1..(i - 1) : ans[Asked(email)[j]].status # 200}

C18_GroupsLookupOrder ==
  (call.fn = "get_groups_for_member_cached" /\ call.done /\ ~call.hit
     /\ ~call.result.raised) =>
    \E order \in {Asked(call.member_email)}, r \in {call.result} :
      /\ Len(r.sent) <= 3
      /\ \A i \in 1..Len(r.sent) : r.sent[i] = Paths[order[i]]
      /\ \A i \in First200(call.member_email, call.answers) :
           /\ Len(r.sent) = i
           /\ r.status = 200 /\ r.path = Paths[order[i]]
           /\ r.body = json_or_empty(r.path, call.answers[order[i]])
      /\ First200(call.member_email, call.answers) = {} =>
           /\ Len(r.sent) = Len(order)
           /\ r.status = call.answers[3].status /\ r.path = Path3
           /\ r.body = json_or_empty(Path3, call.answers[3])

C18_Witness ==
  /\ call.fn = "get_groups_for_member_cached" /\ call.done /\ ~call.hit
  /\ call.member_email # "" /\ ~call.result.raised
  /\ call.result.sent = <<Path1, Path2>> /\ call.result.status = 200
  /\ call.answers[3].status = 200

C18_WitnessNone ==
  /\ call.fn = "get_groups_for_member_cached" /\ call.done /\ ~call.hit
  /\ call.member_email = "" /\ call.result.status = 403
  /\ call.result.sent = <<Path3>>

\* ------------------------------------------------ osdu_app/legal_service.py
\* a tag name is None or a sequence of characters
NoName == <<"None">>
TagNames == Texts \cup {NoName}
LegalStatuses == {200, 302, 403, 404, 500}
LegalAnswers ==
  {NoResponse} \cup
  {[error |-> FALSE, status |-> st, json |-> j] : st \in LegalStatuses, j \in BOOLEAN}

NameGiven(legal_tag_name) == TRUE

NameEmpty(legal_tag_name) ==
  \/ legal_tag_name = NoName
  \/ legal_tag_name = <<>>
  \/ Strip(legal_tag_name) = <<>>

\* resp.raise_for_status(): the client and server error statuses
HttpError(status) == 400 <= status /\ status < 600

TagRaised(exc, msg, sent) ==
  [raised |-> exc, msg |-> msg, sent |-> sent, ret |-> <<>>]

get_legal_tag(legal_tag_name, a) ==
  IF NameEmpty(legal_tag_name)
    THEN TagRaised("ValueError", "legal_tag_name cannot be empty", <<>>)
  ELSE IF a.error
    THEN TagRaised("RequestException", "", <<Strip(legal_tag_name)>>)
  ELSE IF a.status = 404
    THEN TagRaised("ValueError", "Legal tag does not exist", <<Strip(legal_tag_name)>>)
  ELSE IF a.status = 403
    THEN TagRaised("PermissionError", "Not authorized to access this legal tag",
                   <<Strip(legal_tag_name)>>)
  ELSE IF HttpError(a.status)
    THEN TagRaised("HTTPError", "", <<Strip(legal_tag_name)>>)
  ELSE IF ~a.json
    THEN TagRaised("JSONDecodeError", "", <<Strip(legal_tag_name)>>)
  ELSE [raised |-> "none", msg |-> "", sent |-> <<Strip(legal_tag_name)>>,
        ret |-> <<"json of", Strip(legal_tag_name)>>]

CallGetLegalTag ==
  /\ call.fn = "get_legal_tag" /\ ~call.done
  /\ call' = [call EXCEPT !.done = TRUE,
                          !.result = get_legal_tag(call.legal_tag_name, call.answer)]
  /\ UNCHANGED <<vars, ing>>

LegalInit ==
  /\ TokenAtRest
  /\ ing = IdleIng
  /\ call \in
      {[fn |-> "get_legal_tag", legal_tag_name |-> n, answer |-> a, done |-> FALSE,
        result |-> TagRaised("none", "", <<>>)] : n \in TagNames, a \in LegalAnswers}

LegalNext ==
  \/ CallGetLegalTag

SpecLegal == LegalInit /\ [][LegalNext]_allVars

\* C19: get_legal_tag raises ValueError and sends nothing for a name that
\* is empty or all blanks; with a name it sends one request, raises
\* ValueError("Legal tag does not exist") on 404 and PermissionError on
\* 403, and returns the JSON of the response only when the status is not
\* an error status
AllBlank(n) == n = NoName \/ \A i \in 1..Len(n) : n[i] = " "

C19_LegalTagOutcomes ==
  (call.fn = "get_legal_tag" /\ call.done) =>
    \E n \in {call.legal_tag_name}, a \in {call.answer}, r \in {call.result} :
      IF AllBlank(n)
        THEN r.raised = "ValueError" /\ r.sent = <<>>
      ELSE
        /\ Len(r.sent) = 1
        /\ (~a.error /\ a.status = 404) =>
             (r.raised = "ValueError" /\ r.msg = "Legal tag does not exist")
        /\ (~a.error /\ a.status = 403) => r.raised = "PermissionError"
        /\ r.raised = "none" =>
             /\ ~a.error /\ a.status \notin {403, 404} /\ a.status < 400 /\ a.json
             /\ r.ret = <<"json of", r.sent[1]>>
        /\ (~a.error /\ a.status = 200 /\ a.json) => r.raised = "none"

C19_Witness ==
  /\ call.fn = "get_legal_tag" /\ call.done
  /\ call.legal_tag_name = <<" ", " ">>
  /\ call.result.raised = "ValueError" /\ call.result.sent = <<>>
  /\ call.answer.status = 200

C19_WitnessReturned ==
  /\ call.fn = "get_legal_tag" /\ call.done
  /\ call.legal_tag_name = <<" ", "a">>
  /\ call.result.raised = "none" /\ call.result.sent = <<<<"a">>>>

\* C21: a Submit run whose file is missing, whose header fails the
\* validation that was asked for, or whose template is not JSON is stopped
\* with an error, sends no request to the File or Workflow service, and
\* leaves last_file_record_id as it was
PreCheckFails(g) ==
  \/ ~g.uploaded
  \/ g.validate_headers /\ ~g.csv_ok
  \/ g.template = "invalid"

C21_PreChecksStop ==
  [][/\ (ing.pc = "idle" /\ ing'.flow = "submit" /\ PreCheckFails(ing')) =>
          /\ ing'.pc = "ended" /\ ing'.out = "stopped"
          /\ ing'.log = <<>> /\ ~ing'.record.sent
          /\ ing'.last_file_record_id = ing.last_file_record_id
     /\ (ing.flow = "submit" /\ PreCheckFails(ing)) =>
          /\ ing'.log = <<>>
          /\ ing'.last_file_record_id = ing.last_file_record_id]_allVars

C21_Witness ==
  /\ ing.flow = "submit" /\ ing.pc = "ended" /\ ing.out = "stopped"
  /\ ing.uploaded /\ ing.validate_headers /\ ~ing.csv_ok
  /\ ing.template = "ok" /\ ing.owners # <<>> /\ ing.viewers # <<>>
  /\ ing.last_file_record_id = "id2"

\* C22: the legacy endpoint is asked only after the modern call raised, and
\* once; the upload goes to the signed URL of the landing-zone response
\* that held one; a landing-zone response without a signed URL ends the
\* flow, with no upload and no request to the other endpoint
C22_LegacyOnlyAfterRaise ==
  [][(ing.flow = "submit" /\ Len(ing'.log) > Len(ing.log)) =>
       \E api \in {ing'.log[Len(ing'.log)]} :
         /\ api = "getLocation" =>
              /\ LastRequest = "uploadURL" /\ ing.last = "fail"
              /\ \A i \in 1..Len(ing.log) : ing.log[i] # "getLocation"
         /\ api = "upload" =>
              /\ LastRequest \in {"uploadURL", "getLocation"} /\ ing.last = "ok"
              /\ ing.signed_url = SignedUrlOf(LastRequest)
         /\ (api \in {"uploadURL", "getLocation"} /\ ing'.last \in {"empty", "garbled"})
              => ing'.pc = "ended"]_allVars

\* ------------------------------------------------ build_file_generic_metadata
\* the templates and lists the function is called with
ListsInTemplate == {<<>>, <<<<"x">>>>}
AclParts ==
  {AclPart("absent", <<>>, <<>>), AclPart("null", <<>>, <<>>)} \cup
  {AclPart("object", o, v) : o \in ListsInTemplate, v \in ListsInTemplate}
LegalParts ==
  {LegalPart("absent", <<>>, NoKey, NoKey), LegalPart("null", <<>>, NoKey, NoKey)} \cup
  {LegalPart("object", l, c, s) :
     l \in ListsInTemplate,
     c \in {NoKey, Key(<<"US">>), Key(<<"NO">>)},
     s \in {NoKey, Key(<<"compliant">>), Key(<<"incompatible">>)}}

CallBuildFileGenericMetadata ==
  /\ call.fn = "build_file_generic_metadata" /\ ~call.done
  /\ call' = [call EXCEPT !.done = TRUE,
                !.result = build_file_generic_metadata(
                             call.template, call.acl_owners, call.acl_viewers,
                             call.legal_tags)]
  /\ UNCHANGED <<vars, ing>>

BuildInit ==
  /\ TokenAtRest
  /\ ing = IdleIng
  /\ call \in
      {[fn |-> "build_file_generic_metadata", template |-> Template(d, a, l),
        acl_owners |-> o, acl_viewers |-> v, legal_tags |-> g, done |-> FALSE,
        result |-> [raised |-> FALSE, record |-> Template(d, a, l),
                    template |-> Template(d, a, l)]] :
         d \in {"object", "absent"}, a \in AclParts, l \in LegalParts,
         o \in Lists, v \in Lists, g \in Lists}

BuildNext ==
  \/ CallBuildFileGenericMetadata

SpecBuild == BuildInit /\ [][BuildNext]_allVars

\* C23: build_file_generic_metadata leaves its template as it was; the
\* record it returns holds the owners, viewers and legal tags passed in,
\* whatever the template held, and the template's
\* otherRelevantDataCountries and status where it has them, ["US"] and
\* "compliant" where it has not
C23_TemplateKept ==
  (call.fn = "build_file_generic_metadata" /\ call.done) =>
    \E t \in {call.template}, r \in {call.result} :
      /\ r.template = t
      /\ ~r.raised =>
           /\ r.record.acl.owners = call.acl_owners
           /\ r.record.acl.viewers = call.acl_viewers
           /\ r.record.legal.legaltags = call.legal_tags
           /\ r.record.legal.otherRelevantDataCountries.value =
                IF t.legal.kind = "object" /\ t.legal.otherRelevantDataCountries.present
                THEN t.legal.otherRelevantDataCountries.value ELSE <<"US">>
           /\ r.record.legal.status.value =
                IF t.legal.kind = "object" /\ t.legal.status.present
                THEN t.legal.status.value ELSE <<"compliant">>
      /\ (t.data = "object" /\ t.acl.kind # "null" /\ t.legal.kind # "null")
           => ~r.raised

C23_Witness ==
  /\ call.fn = "build_file_generic_metadata" /\ call.done /\ ~call.result.raised
  /\ call.template.acl.kind = "object" /\ call.template.acl.owners # <<>>
  /\ call.acl_owners # call.template.acl.owners
  /\ call.template.legal.kind = "object"
  /\ call.template.legal.legaltags # <<>> /\ call.legal_tags = <<>>
  /\ call.template.legal.otherRelevantDataCountries = Key(<<"NO">>)
  /\ ~call.template.legal.status.present
  /\ call.result.record # call.template

C23_WitnessDefaults ==
  /\ call.fn = "build_file_generic_metadata" /\ call.done /\ ~call.result.raised
  /\ call.template.legal.kind = "absent" /\ call.template.acl.kind = "absent"
  /\ call.result.record.legal.status = Key(<<"compliant">>)

====
